---------------------------- MODULE Spec2Model ----------------------------
(***************************************************************************)
(* object-fit-videos: the polyfill of src/object-fit-videos.js as a state  *)
(* machine.  The document holds video elements; the environment (the       *)
(* browser) changes their intrinsic size, lays out the wrappers and fires  *)
(* events; the program's handlers react.                                   *)
(*                                                                         *)
(* Strings are sequences of one-character strings, so that the regular     *)
(* expression of getStyle and the indexOf of parsePosition are computed    *)
(* character by character.  A JavaScript number is a pair <<n, d>> that    *)
(* stands for n/d when d > 0, for +Infinity, -Infinity when d = 0 and      *)
(* n = 1, -1, and for NaN when n = d = 0.                                  *)
(***************************************************************************)
EXTENDS Integers, Sequences, FiniteSets, TLC

(***************************************************************************)
(* Characters and the strings the model uses                               *)
(***************************************************************************)
sObjectFit      == <<"o","b","j","e","c","t","-","f","i","t">>
sObjectPosition == <<"o","b","j","e","c","t","-","p","o","s","i","t","i","o","n">>
sFill    == <<"f","i","l","l">>
sContain == <<"c","o","n","t","a","i","n">>
sCover   == <<"c","o","v","e","r">>
sLeft    == <<"l","e","f","t">>
sRight   == <<"r","i","g","h","t">>
sTop     == <<"t","o","p">>
sBottom  == <<"b","o","t","t","o","m">>
sCenter  == <<"c","e","n","t","e","r">>
sSpace   == <<" ">>
sArial   == <<"A","r","i","a","l">>
sRightward == sRight \o <<"w","a","r","d">>
sPercent   == <<"5","0","%"," ","5","0","%">>

\* \s of the regular expression
WhiteSpace == {" ", "\t", "\n"}

\* \w of the regular expression: [A-Za-z0-9_]
WordChar ==
  {"a","b","c","d","e","f","g","h","i","j","k","l","m","n","o","p","q","r","s",
   "t","u","v","w","x","y","z","A","B","C","D","E","F","G","H","I","J","K","L",
   "M","N","O","P","Q","R","S","T","U","V","W","X","Y","Z","0","1","2","3","4",
   "5","6","7","8","9","_"}

\* the class [-\w\s%] of the value group
ValueChar == {"-", "%"} \cup WordChar \cup WhiteSpace

\* s has sub at index i (1-based)
HasAt(s, sub, i) ==
  /\ i >= 1
  /\ i + Len(sub) - 1 <= Len(s)
  /\ SubSeq(s, i, i + Len(sub) - 1) = sub

\* ~s.indexOf(sub): sub occurs somewhere in s
Contains(s, sub) == \E i \in 1..(Len(s) + 1) : HasAt(s, sub, i)

\* first index >= i whose character is not in class (Len(s)+1 when none)
RECURSIVE SkipClass(_, _, _)
SkipClass(s, class, i) ==
  IF i <= Len(s) /\ s[i] \in class THEN SkipClass(s, class, i + 1) ELSE i

(***************************************************************************)
(* propRegex = /(object-fit|object-position)\s*:\s*([-\w\s%]+)/g           *)
(***************************************************************************)
NoMatch == [found |-> FALSE, name |-> <<>>, value |-> <<>>, lastIndex |-> 0]

\* The match of the part after the property name, which ends before index j:
\* \s* ":" \s* ([-\w\s%]+).  Both \s* are greedy; when nothing but white space
\* follows the colon, the second \s* gives one character back to the group.
MatchTail(s, name, j) ==
  LET k == SkipClass(s, WhiteSpace, j)
      m == k + 1
      p == SkipClass(s, WhiteSpace, m)
      q == SkipClass(s, ValueChar, p)
  IN  IF ~(k <= Len(s) /\ s[k] = ":") THEN NoMatch
      ELSE IF q > p
        THEN [found |-> TRUE, name |-> name,
              value |-> SubSeq(s, p, q - 1), lastIndex |-> q]
      ELSE IF p > m
        THEN [found |-> TRUE, name |-> name,
              value |-> SubSeq(s, p - 1, p - 1), lastIndex |-> p]
      ELSE NoMatch

\* the match that starts exactly at index i, the alternatives tried in order
MatchAt(s, i) ==
  LET a == IF HasAt(s, sObjectFit, i)
             THEN MatchTail(s, sObjectFit, i + Len(sObjectFit)) ELSE NoMatch
      b == IF HasAt(s, sObjectPosition, i)
             THEN MatchTail(s, sObjectPosition, i + Len(sObjectPosition))
             ELSE NoMatch
  IN  IF a.found THEN a ELSE b

\* propRegex.exec(style) with lastIndex = from: the leftmost match at or after
\* from (lastIndex is the 1-based index of the character after the match)
RECURSIVE Exec(_, _)
Exec(s, from) ==
  IF from > Len(s) THEN NoMatch
  ELSE LET r == MatchAt(s, from)
       IN  IF r.found THEN r ELSE Exec(s, from + 1)

(***************************************************************************)
(* parsePosition and getStyle.  A style object is a record; a missing key  *)
(* is the empty string for the two declared properties (a match is never   *)
(* empty, and the code only tests them for truthiness) and "absent" for    *)
(* the two position axes.                                                  *)
(***************************************************************************)
NoProps == [fit |-> <<>>, position |-> <<>>, x |-> "absent", y |-> "absent"]

parsePositionSwapped(style) ==
  [style EXCEPT
     !.x = IF Contains(style.position, sRight) THEN "right"
           ELSE IF Contains(style.position, sLeft) THEN "left"
           ELSE "center",
     !.y = IF Contains(style.position, sBottom) THEN "bottom"
           ELSE IF Contains(style.position, sTop) THEN "top"
           ELSE "center"]

parsePosition(style) ==
  [style EXCEPT
     !.x = IF Contains(style.position, sLeft) THEN "left"
           ELSE IF Contains(style.position, sRight) THEN "right"
           ELSE "center",
     !.y = IF Contains(style.position, sTop) THEN "top"
           ELSE IF Contains(style.position, sBottom) THEN "bottom"
           ELSE "center"]

\* the while loop of getStyle: props[parsed[1]] = parsed[2] for every match
RECURSIVE ScanProps(_, _, _)
ScanProps(s, from, props) ==
  LET r == Exec(s, from)
  IN  IF ~r.found THEN props
      ELSE ScanProps(s, r.lastIndex,
                     IF r.name = sObjectFit
                       THEN [props EXCEPT !.fit = r.value]
                       ELSE [props EXCEPT !.position = r.value])

\* getStyle on an element whose computed font-family is the string s
getStyle(s) ==
  LET props == ScanProps(s, 1, NoProps)
  IN  IF props.position # <<>> THEN parsePosition(props) ELSE props

(***************************************************************************)
(* JavaScript numbers: <<n, d>> is n/d (d > 0), <<1, 0>> is Infinity,      *)
(* <<-1, 0>> is -Infinity, <<0, 0>> is NaN.                                *)
(***************************************************************************)
Sgn(n) == IF n > 0 THEN 1 ELSE IF n < 0 THEN -1 ELSE 0

\* a pair with a denominator >= 0 in the canonical form of its non-finite values
Norm(x) == IF x[2] = 0 THEN <<Sgn(x[1]), 0>> ELSE x

IsNaN(x)    == x[1] = 0 /\ x[2] = 0
IsFinite(x) == x[2] > 0

\* a / b for integers a, b >= 0
Div(a, b) == Norm(<<a, b>>)

\* x < y for x, y >= 0 or NaN (a comparison with NaN is false)
Less(x, y) == ~IsNaN(x) /\ ~IsNaN(y) /\ x[1] * y[2] < y[1] * x[2]

\* k * x, k / x and k - x for an integer k >= 0 and x >= 0 or NaN
\* a product computed as the quotient
MulIntAsDiv(k, x) == Norm(<<k * x[2], x[1]>>)

MulInt(k, x) == Norm(<<k * x[1], x[2]>>)
DivInt(k, x) == Norm(<<k * x[2], x[1]>>)
SubInt(k, x) == Norm(<<k * x[2] - x[1], x[2]>>)
Half(x)      == Norm(<<x[1], 2 * x[2]>>)

\* a rounding that drops the fraction (towards zero)
RoundTowardZero(x) ==
  IF ~IsFinite(x) THEN x
  ELSE IF x[1] >= 0 THEN <<x[1] \div x[2], 1>>
  ELSE <<-((-x[1]) \div x[2]), 1>>

\* Math.round: the nearest integer, a half rounded towards +Infinity; a
\* non-finite value is returned as it is
Round(x) == IF IsFinite(x) THEN <<(2 * x[1] + x[2]) \div (2 * x[2]), 1>> ELSE x

(***************************************************************************)
(* The inline style of a video element.  A length is <<k>> for k px and    *)
(* <<>> while the property has the value the page's author gave it.        *)
(***************************************************************************)
Unset == <<>>

AuthorCss ==
  [width |-> Unset, height |-> Unset,
   marginLeft |-> Unset, marginTop |-> Unset,
   marginRight |-> Unset, marginBottom |-> Unset,
   border |-> Unset, padding |-> Unset,
   display |-> "author", opacity |-> Unset]

\* setCss[prop] = v + 'px' for a rounded number v: the style engine drops a
\* declaration that does not parse ("NaNpx", "Infinitypx", a negative size)
SetPx(c, prop, v, nonNegative) ==
  IF IsFinite(v) /\ (nonNegative => v[1] >= 0)
    THEN [c EXCEPT ![prop] = <<v[1]>>]
    ELSE c

\* lines 129-131 of fitIt: setCss.border = setCss.margin = setCss.padding = 0,
\* display block, opacity 1
SanerStyles(c) ==
  [c EXCEPT !.border = <<0>>, !.padding = <<0>>,
            !.marginLeft = <<0>>, !.marginTop = <<0>>,
            !.marginRight = <<0>>, !.marginBottom = <<0>>,
            !.display = "block", !.opacity = <<1>>]

(***************************************************************************)
(* doWork: the sizing of a video of cached intrinsic size videoWidth x     *)
(* videoHeight in a wrapper of client size wrapWidth x wrapHeight, on the  *)
(* inline style c of the video.                                            *)
(***************************************************************************)
\* the two fits exchanged
HeightConstrainedSwapped(style, videoRatio, wrapRatio) ==
  IF Less(videoRatio, wrapRatio) THEN style.fit = sCover
                                 ELSE style.fit = sContain

\* the fit ignored: every video is contained
HeightConstrainedContain(style, videoRatio, wrapRatio) ==
  Less(videoRatio, wrapRatio)

\* the condition of line 197-198
HeightConstrained(style, videoRatio, wrapRatio) ==
  IF Less(videoRatio, wrapRatio) THEN style.fit = sContain
                                 ELSE style.fit = sCover

doWork(c, style, videoWidth, videoHeight, wrapWidth, wrapHeight) ==
  LET videoRatio == Div(videoWidth, videoHeight)
      wrapRatio  == Div(wrapWidth, wrapHeight)
      c0         == [c EXCEPT !.marginLeft = <<0>>, !.marginTop = <<0>>]
      newHeight  == MulInt(wrapHeight, videoRatio)
      newWidth   == DivInt(wrapWidth, videoRatio)
  IN  IF HeightConstrained(style, videoRatio, wrapRatio)
        THEN LET c1 == SetPx(c0, "width", Round(newHeight), TRUE)
                 c2 == SetPx(c1, "height", <<wrapHeight, 1>>, TRUE)
             IN  IF style.x = "left"
                   THEN [c2 EXCEPT !.marginLeft = <<0>>]
                 ELSE IF style.x = "right"
                   THEN SetPx(c2, "marginLeft",
                              Round(SubInt(wrapWidth, newHeight)), FALSE)
                 ELSE SetPx(c2, "marginLeft",
                            Round(Half(SubInt(wrapWidth, newHeight))), FALSE)
        ELSE LET c1 == SetPx(c0, "width", <<wrapWidth, 1>>, TRUE)
                 c2 == SetPx(c1, "height", Round(newWidth), TRUE)
             IN  IF style.y = "top"
                   THEN [c2 EXCEPT !.marginTop = <<0>>]
                 ELSE IF style.y = "bottom"
                   THEN SetPx(c2, "marginTop",
                              Round(SubInt(wrapHeight, newWidth)), FALSE)
                 ELSE SetPx(c2, "marginTop",
                            Round(Half(SubInt(wrapHeight, newWidth))), FALSE)

(***************************************************************************)
(* Bounds and the sample values of the environment                         *)
(***************************************************************************)
MaxCalls    == 2   \* calls of objectFitVideos in a behaviour
MaxTimers   == 2   \* pending setTimeout(startWork, 50) callbacks
MaxMonitors == 2   \* timeupdate listeners on one element
MaxBurst    == 2   \* resize events between two animation frames
MaxDim      == 4   \* largest dimension of the sizing grid

\* computed font-family strings
Decl(prop, value) == prop \o <<":", " ">> \o value \o <<";">>
Quoted(s)         == <<"\"">> \o s \o <<"\"">>

fArial        == sArial
fCover        == Quoted(Decl(sObjectFit, sCover))
fContain      == Quoted(Decl(sObjectFit, sContain))
fFill         == Quoted(Decl(sObjectFit, sFill))
fPositionTop  == Quoted(Decl(sObjectPosition, sTop))
\* the font-family that declares fit and position (<<>>: not declared)
Font(fit, position) ==
  Quoted((IF fit = <<>> THEN <<>> ELSE Decl(sObjectFit, fit))
         \o (IF fit = <<>> \/ position = <<>> THEN <<>> ELSE sSpace)
         \o (IF position = <<>> THEN <<>>
             ELSE Decl(sObjectPosition, position)))

sLeftTop     == sLeft \o sSpace \o sTop
sRightBottom == sRight \o sSpace \o sBottom
fCoverRightBottom == Font(sCover, sRightBottom)

\* the documents: the font-family of each video, in document order
Documents ==
  { <<fArial>>, <<fFill>>, <<fPositionTop>>, <<fCoverRightBottom>> }

\* 'object-fit' in testImg.style, 'object-position' in testImg.style
Platforms ==
  { [fit |-> TRUE,  position |-> TRUE],
    [fit |-> TRUE,  position |-> FALSE],
    [fit |-> FALSE, position |-> FALSE] }

\* intrinsic sizes the platform reports once metadata is known (0 x 0: not
\* decoded yet) and the client sizes of a wrapper
VideoDims == { <<0, 0>>, <<4, 3>>, <<3, 4>> }
Boxes     == { <<4, 4>>, <<8, 3>> }

NotReady == [ready |-> FALSE, videoWidth |-> 0, videoHeight |-> 0]

(***************************************************************************)
(* State                                                                   *)
(***************************************************************************)
VARIABLES
  platform,     \* the two feature probes
  autoplay,     \* autoplay[e]: the autoplay attribute of video e
  fontFamily,   \* fontFamily[e]: computed font-family of video e
  media,        \* media[e]: readyState >= 1, videoWidth, videoHeight
  box,          \* box[e]: client size of a wrapper in the place of e
  css,          \* css[e]: inline style of video e
  dom,          \* dom[e]: number of object-fit wrappers around e
  binds,        \* the closures of fitIt, in the order of creation
  metaL,        \* metaL[e]: loadedmetadata listeners of e (closures)
  timeupdateL,  \* timeupdateL[e]: videoDimensionsMonitor listeners of e
  endedL,       \* endedL[e]: ended listeners of e
  resizeL,      \* optimizedResize listeners of window
  timers,       \* pending setTimeout(startWork, 50), in firing order
  running,      \* running[i]: the flag of the i-th throttle closure
  rafQueue,     \* pending requestAnimationFrame callbacks
  plays,        \* plays[e]: calls of play() on video e by the program
  calls,        \* number of calls of objectFitVideos so far
  burst,        \* resize events a throttle heard since the last frame
  last          \* the optimizedResize dispatches of the last step

vars == <<platform, autoplay, fontFamily, media, box, css, dom, binds, metaL,
          timeupdateL, endedL, resizeL, timers, running, rafQueue,
          plays, calls, burst, last>>

env == <<platform, autoplay, fontFamily>>

\* the video elements of the document
Videos == DOMAIN fontFamily

\* the arguments of objectFitVideos, as the list initialize loops over:
\* nothing (every video), one element, a collection
AllVideos == [i \in Videos |-> i]
Collections ==
  UNION { { l \in [1..n -> Videos] :
              \A i, j \in 1..n : l[i] = l[j] => i = j } :
          n \in 0..Cardinality(Videos) }
Args ==
  { [kind |-> "none", list |-> AllVideos] }
  \cup { [kind |-> "element", list |-> <<e>>] : e \in Videos }
  \cup { [kind |-> "collection", list |-> l] : l \in Collections }

\* no video carries the autoplay attribute
NoAutoplay == [e \in Videos |-> FALSE]

\* a step that runs no animation frame dispatches nothing
NoLast == [dispatched |-> 0, burst |-> 0]

\* the part of the state the handlers change, as one record
Cur ==
  [css |-> css, dom |-> dom, binds |-> binds, metaL |-> metaL,
   timeupdateL |-> timeupdateL, endedL |-> endedL, resizeL |-> resizeL,
   timers |-> timers, running |-> running, rafQueue |-> rafQueue,
   plays |-> plays, dispatched |-> 0]

WithinBounds(s) ==
  /\ Len(s.timers) <= MaxTimers
  /\ \A e \in Videos : Len(s.timeupdateL[e]) <= MaxMonitors

Commit(s) ==
  /\ WithinBounds(s)
  /\ css' = s.css
  /\ dom' = s.dom
  /\ binds' = s.binds
  /\ metaL' = s.metaL
  /\ timeupdateL' = s.timeupdateL
  /\ endedL' = s.endedL
  /\ resizeL' = s.resizeL
  /\ timers' = s.timers
  /\ running' = s.running
  /\ rafQueue' = s.rafQueue
  /\ plays' = s.plays

\* seq without its first element equal to x
RECURSIVE RemoveFirst(_, _)
RemoveFirst(seq, x) ==
  IF seq = <<>> THEN <<>>
  ELSE IF Head(seq) = x THEN Tail(seq)
  ELSE <<Head(seq)>> \o RemoveFirst(Tail(seq), x)

Count(seq, x) == Cardinality({i \in 1..Len(seq) : seq[i] = x})

(***************************************************************************)
(* The handlers, as functions of the state record s.  m is media and bx is *)
(* box at the time the handler runs.                                       *)
(***************************************************************************)
\* a doWork that measures the video itself once it has a size, not the wrapper
runDoWorkOwnSize(s, b, bx) ==
  LET c   == s.binds[b]
      cur == s.css[c.el]
      ww  == IF cur.width # Unset THEN cur.width[1] ELSE bx[c.el][1]
      wh  == IF cur.height # Unset THEN cur.height[1] ELSE bx[c.el][2]
  IN  [s EXCEPT !.css[c.el] = doWork(@, c.style, c.videoWidth, c.videoHeight,
                                     ww, wh)]

\* doWork of closure b, on its cached intrinsic size and the client size of
\* its wrapper
runDoWork(s, b, bx) ==
  LET c == s.binds[b]
  IN  [s EXCEPT !.css[c.el] = doWork(@, c.style, c.videoWidth, c.videoHeight,
                                     bx[c.el][1], bx[c.el][2])]

\* the else branch of startWork: doWork, then the two listeners
sizeAndMonitor(s, b, bx) ==
  LET e  == s.binds[b].el
      s1 == runDoWork(s, b, bx)
  IN  [s1 EXCEPT !.timeupdateL[e] = Append(@, b),
                 !.endedL[e] = Append(@, b)]

\* lines 150-151 of startWork: the closure caches the intrinsic size the
\* platform reports.  observed records that it has read a nonzero one.
readDimensions(s, b, m) ==
  LET e == s.binds[b].el
  IN  [s EXCEPT !.binds[b].videoWidth = m[e].videoWidth,
                !.binds[b].videoHeight = m[e].videoHeight,
                !.binds[b].observed =
                   @ \/ (m[e].videoWidth # 0 /\ m[e].videoHeight # 0)]

\* a startWork that sizes whatever the intrinsic size is
startWorkUnguarded(s, b, m, bx) ==
  sizeAndMonitor(readDimensions(s, b, m), b, bx)

\* a startWork that gives up when the intrinsic size is zero
startWorkNoRetry(s, b, m, bx) ==
  LET s1 == readDimensions(s, b, m)
  IN  IF s1.binds[b].videoWidth = 0 \/ s1.binds[b].videoHeight = 0
        THEN s1
        ELSE sizeAndMonitor(s1, b, bx)

\* a startWork that re-arms its timer after sizing too
startWorkAlwaysRetry(s, b, m, bx) ==
  LET s1 == readDimensions(s, b, m)
      s2 == [s1 EXCEPT !.timers = Append(@, b)]
  IN  IF s1.binds[b].videoWidth = 0 \/ s1.binds[b].videoHeight = 0
        THEN s2
        ELSE sizeAndMonitor(s2, b, bx)

startWork(s, b, m, bx) ==
  LET s1 == readDimensions(s, b, m)
  IN  IF s1.binds[b].videoWidth = 0 \/ s1.binds[b].videoHeight = 0
        THEN [s1 EXCEPT !.timers = Append(@, b)]
        ELSE sizeAndMonitor(s1, b, bx)

\* the listeners of one event, called in the order of subscription
RECURSIVE startWorkAll(_, _, _, _)
startWorkAll(s, listeners, m, bx) ==
  IF listeners = <<>> THEN s
  ELSE startWorkAll(startWork(s, Head(listeners), m, bx),
                    Tail(listeners), m, bx)

\* a monitor that sizes again without taking the new intrinsic size
videoDimensionsMonitorStale(s, b, m, bx) ==
  LET e == s.binds[b].el
  IN  IF m[e].videoWidth # s.binds[b].videoWidth
         \/ m[e].videoHeight # s.binds[b].videoHeight
        THEN runDoWork(s, b, bx)
        ELSE s

videoDimensionsMonitor(s, b, m, bx) ==
  LET e == s.binds[b].el
  IN  IF m[e].videoWidth # s.binds[b].videoWidth
         \/ m[e].videoHeight # s.binds[b].videoHeight
        THEN runDoWork(readDimensions(s, b, m), b, bx)
        ELSE s

RECURSIVE videoDimensionsMonitorAll(_, _, _, _)
videoDimensionsMonitorAll(s, listeners, m, bx) ==
  IF listeners = <<>> THEN s
  ELSE videoDimensionsMonitorAll(
         videoDimensionsMonitor(s, Head(listeners), m, bx),
         Tail(listeners), m, bx)

\* the ended listener of closure b: it removes its monitor and itself
ended(s, b) ==
  LET e == s.binds[b].el
  IN  [s EXCEPT !.timeupdateL[e] = RemoveFirst(@, b),
                !.endedL[e] = RemoveFirst(@, b)]

RECURSIVE endedAll(_, _)
endedAll(s, listeners) ==
  IF listeners = <<>> THEN s
  ELSE endedAll(ended(s, Head(listeners)), Tail(listeners))

\* lines 102-135 of fitIt: the wrapper, the saner styles, the closure and
\* its two listeners
wrap(s, el, style) ==
  LET b == Len(s.binds) + 1
  IN  [s EXCEPT !.dom[el] = @ + 1,
                !.css[el] = SanerStyles(@),
                !.binds = Append(@, [el |-> el, style |-> style,
                                     videoWidth |-> 0, videoHeight |-> 0,
                                     observed |-> FALSE]),
                !.metaL[el] = Append(@, b),
                !.resizeL = Append(@, b)]

\* lines 139-142 of fitIt, for the closure just created
runIfReady(s, el, m, bx) ==
  LET b == Len(s.binds)
  IN  IF m[el].ready
        THEN startWork([s EXCEPT !.metaL[el] = RemoveFirst(@, b)], b, m, bx)
        ELSE s

\* a fitIt without the early return for fill
fitItAlways(s, el, style, m, bx) ==
  runIfReady(wrap(s, el, style), el, m, bx)

\* a fitIt that wraps a fill video and then does nothing more to it
fitItFillWraps(s, el, style, m, bx) ==
  IF style.fit = sFill
    THEN [s EXCEPT !.dom[el] = @ + 1, !.css[el] = SanerStyles(@)]
    ELSE runIfReady(wrap(s, el, style), el, m, bx)

\* a fitIt that leaves an element alone once it has a wrapper
fitItGuarded(s, el, style, m, bx) ==
  IF style.fit = sFill \/ s.dom[el] > 0 THEN s
  ELSE runIfReady(wrap(s, el, style), el, m, bx)

fitIt(s, el, style, m, bx) ==
  IF style.fit = sFill THEN s
  ELSE runIfReady(wrap(s, el, style), el, m, bx)

\* an element of the list without the test of line 83
initializeOneUnfiltered(s, el, ff, m, bx) ==
  fitIt(s, el, getStyle(ff[el]), m, bx)

\* the body of the loop of initialize, for the element el
initializeOne(s, el, ff, m, bx) ==
  LET style == getStyle(ff[el])
  IN  IF style.fit # <<>> \/ style.position # <<>>
        THEN fitIt(s, el,
                   [style EXCEPT !.fit = IF @ # <<>> THEN @ ELSE sFill],
                   m, bx)
        ELSE s

RECURSIVE initialize(_, _, _, _, _)
initialize(s, videos, ff, m, bx) ==
  IF videos = <<>> THEN s
  ELSE initialize(initializeOne(s, Head(videos), ff, m, bx),
                  Tail(videos), ff, m, bx)

\* throttle('resize', 'optimizedResize'): a new closure, its flag false
throttle(s) == [s EXCEPT !.running = Append(@, FALSE)]

\* a func that schedules a frame for every resize
funcUnthrottled(s, i) ==
  [s EXCEPT !.running[i] = TRUE, !.rafQueue = Append(@, i)]

\* func of the i-th throttle closure, the resize listener
func(s, i) ==
  IF s.running[i] THEN s
  ELSE [s EXCEPT !.running[i] = TRUE, !.rafQueue = Append(@, i)]

RECURSIVE funcAll(_, _)
funcAll(s, i) ==
  IF i > Len(s.running) THEN s ELSE funcAll(func(s, i), i + 1)

\* a frame callback that dispatches and leaves the flag set
frameCallbackStuck(s, i, m, bx) ==
  LET s1 == startWorkAll(s, s.resizeL, m, bx)
  IN  [s1 EXCEPT !.dispatched = @ + 1]

\* the requestAnimationFrame callback of the i-th throttle closure
frameCallback(s, i, m, bx) ==
  LET s1 == startWorkAll(s, s.resizeL, m, bx)
  IN  [s1 EXCEPT !.dispatched = @ + 1, !.running[i] = FALSE]

RECURSIVE frameCallbackAll(_, _, _, _)
frameCallbackAll(s, queue, m, bx) ==
  IF queue = <<>> THEN s
  ELSE frameCallbackAll(frameCallback(s, Head(queue), m, bx),
                        Tail(queue), m, bx)

\* a guard that lets every platform through
everythingUnsupported(p) == TRUE

\* the condition of line 40
unsupported(p) == ~p.fit \/ ~p.position

(***************************************************************************)
(* Actions                                                                 *)
(***************************************************************************)
Ready(d) == [ready |-> TRUE, videoWidth |-> d[1], videoHeight |-> d[2]]

\* an objectFitVideos that selects every video whatever its argument
ObjectFitVideosEveryVideo(arg) ==
  /\ calls < MaxCalls
  /\ LET s == IF unsupported(platform)
                THEN throttle(initialize(Cur, AllVideos, fontFamily, media, box))
                ELSE Cur
     IN  Commit(s)
  /\ calls' = calls + 1
  /\ last' = NoLast
  /\ UNCHANGED <<env, media, box, burst>>

\* the page calls objectFitVideos(videos)
ObjectFitVideos(arg) ==
  /\ calls < MaxCalls
  /\ LET s == IF unsupported(platform)
                THEN throttle(initialize(Cur, arg.list, fontFamily, media, box))
                ELSE Cur
     IN  Commit(s)
  /\ calls' = calls + 1
  /\ last' = NoLast
  /\ UNCHANGED <<env, media, box, burst>>

\* the metadata of video e arrives; the platform reports the size d
LoadedMetadata(e, d) ==
  /\ ~media[e].ready
  /\ LET m == [media EXCEPT ![e] = Ready(d)]
     IN  /\ media' = m
         /\ Commit(startWorkAll(Cur, metaL[e], m, box))
  /\ last' = NoLast
  /\ UNCHANGED <<env, box, calls, burst>>

\* the platform corrects the intrinsic size of video e, with no event the
\* program listens to
DimensionsChange(e, d) ==
  /\ media[e].ready
  /\ d # <<media[e].videoWidth, media[e].videoHeight>>
  /\ media' = [media EXCEPT ![e] = Ready(d)]
  /\ last' = NoLast
  /\ UNCHANGED <<env, box, calls, burst, css, dom, binds, metaL,
                 timeupdateL, endedL, resizeL, timers, running, rafQueue,
                 plays>>

\* the source of video e is reset: readyState 0, no intrinsic size
Emptied(e) ==
  /\ media[e].ready
  /\ media' = [media EXCEPT ![e] = NotReady]
  /\ last' = NoLast
  /\ UNCHANGED <<env, box, calls, burst, css, dom, binds, metaL,
                 timeupdateL, endedL, resizeL, timers, running, rafQueue,
                 plays>>

\* timeupdate on video e
TimeUpdate(e) ==
  /\ Commit(videoDimensionsMonitorAll(Cur, timeupdateL[e], media, box))
  /\ last' = NoLast
  /\ UNCHANGED <<env, media, box, calls, burst>>

\* ended on video e
Ended(e) ==
  /\ media[e].ready
  /\ Commit(endedAll(Cur, endedL[e]))
  /\ last' = NoLast
  /\ UNCHANGED <<env, media, box, calls, burst>>

\* the window is resized: the wrappers get the client sizes nb, and the
\* resize listeners (func of every throttle closure) run
Resize(nb) ==
  /\ burst < MaxBurst
  /\ box' = nb
  /\ Commit(funcAll(Cur, 1))
  /\ burst' = IF Len(running) > 0 THEN burst + 1 ELSE burst
  /\ last' = NoLast
  /\ UNCHANGED <<env, media, calls>>

\* an animation frame: the pending callbacks run, in the order of request
AnimationFrameResult ==
  frameCallbackAll([Cur EXCEPT !.rafQueue = <<>>], rafQueue, media, box)

AnimationFrame ==
  /\ rafQueue # <<>>
  /\ LET s == AnimationFrameResult
     IN  /\ Commit(s)
         /\ last' = [dispatched |-> s.dispatched, burst |-> burst]
  /\ burst' = 0
  /\ UNCHANGED <<env, media, box, calls>>

\* the oldest pending setTimeout(startWork, 50) fires
TimeoutResult ==
  startWork([Cur EXCEPT !.timers = Tail(@)], Head(timers), media, box)

Timeout ==
  /\ timers # <<>>
  /\ Commit(TimeoutResult)
  /\ last' = NoLast
  /\ UNCHANGED <<env, media, box, calls, burst>>

InitProgram ==
  /\ css = [e \in Videos |-> AuthorCss]
  /\ dom = [e \in Videos |-> 0]
  /\ binds = <<>>
  /\ metaL = [e \in Videos |-> <<>>]
  /\ timeupdateL = [e \in Videos |-> <<>>]
  /\ endedL = [e \in Videos |-> <<>>]
  /\ resizeL = <<>>
  /\ timers = <<>>
  /\ running = <<>>
  /\ rafQueue = <<>>
  /\ plays = [e \in Videos |-> 0]
  /\ calls = 0
  /\ burst = 0
  /\ last = NoLast

Init ==
  /\ platform \in Platforms
  /\ fontFamily \in Documents
  /\ autoplay = NoAutoplay
  /\ media = [e \in Videos |-> NotReady]
  /\ box \in [Videos -> Boxes]
  /\ InitProgram

Next ==
  \/ \E arg \in Args : ObjectFitVideos(arg)
  \/ \E e \in Videos, d \in VideoDims : LoadedMetadata(e, d)
  \/ \E e \in Videos, d \in VideoDims : DimensionsChange(e, d)
  \/ \E e \in Videos : Emptied(e)
  \/ \E e \in Videos : TimeUpdate(e)
  \/ \E e \in Videos : Ended(e)
  \/ \E nb \in [Videos -> Boxes] : Resize(nb)
  \/ AnimationFrame
  \/ Timeout

Spec == Init /\ [][Next]_vars

(***************************************************************************)
(* The sizing under a frozen environment: a document of one video whose    *)
(* metadata is known, with every intrinsic size and wrapper size of a grid *)
(* (and the 1920 x 1080 video in a 400 x 300 wrapper); the page calls the  *)
(* entry point, and resize events and timers run the recompute routine     *)
(* again.                                                                  *)
(***************************************************************************)
Grid == (1..MaxDim) \X (1..MaxDim)

\* intrinsic sizes: the grid, 0 x 0 (not decoded yet) and the scenario's
VideoGrid == Grid \cup {<<0, 0>>, <<1920, 1080>>}

\* wrapper client sizes: the grid, two collapsed wrappers and the scenario's
BoxGrid == Grid \cup {<<0, 0>>, <<MaxDim, 0>>, <<400, 300>>}

SizingDocuments ==
  { <<Font(fit, position)>> :
      fit \in {sContain, sCover},
      position \in {<<>>, sLeftTop, sRightBottom} }

InitSizing ==
  /\ platform = [fit |-> FALSE, position |-> FALSE]
  /\ fontFamily \in SizingDocuments
  /\ autoplay = NoAutoplay
  /\ \E d \in VideoGrid : media = <<Ready(d)>>
  /\ \E b \in BoxGrid : box = <<b>>
  /\ InitProgram

NextSizing ==
  \/ \E arg \in Args : ObjectFitVideos(arg)
  \/ Resize(box)
  \/ AnimationFrame
  \/ Timeout

SpecSizing == InitSizing /\ [][NextSizing]_vars

(***************************************************************************)
(* The style extraction: a document of one video for every combination of *)
(* a declared fit and a declared position.                                 *)
(***************************************************************************)
FitValues == {<<>>, sFill, sContain, sCover}

PositionValues ==
  { <<>>, sLeft, sRight, sTop, sBottom, sCenter, sLeftTop, sRightBottom,
    sTop \o sSpace \o sRight, sRight \o sSpace \o sLeft,
    sBottom \o sSpace \o sTop, sRightward, sPercent }

ParseDocuments ==
  { <<Font(fit, position)>> : fit \in FitValues, position \in PositionValues }

InitParse ==
  /\ platform = [fit |-> FALSE, position |-> FALSE]
  /\ fontFamily \in ParseDocuments
  /\ autoplay = NoAutoplay
  /\ media = <<Ready(<<4, 3>>)>>
  /\ box = <<(<<4, 4>>)>>
  /\ InitProgram

NextParse == \E arg \in Args : ObjectFitVideos(arg)

SpecParse == InitParse /\ [][NextParse]_vars

(***************************************************************************)
(* The videos with and without the autoplay attribute: one video that      *)
(* declares a fit, on a platform without support, its metadata known from  *)
(* the start (with a size, or 0 x 0 while the decoder has none); the page  *)
(* calls objectFitVideos and resizes the window.                           *)
(***************************************************************************)
AutoplayDocuments == { <<fCover>>, <<fContain>>, <<fFill>> }

InitAutoplay ==
  /\ platform = [fit |-> FALSE, position |-> FALSE]
  /\ fontFamily \in AutoplayDocuments
  /\ autoplay \in [Videos -> BOOLEAN]
  /\ \E d \in VideoDims : media = <<Ready(d)>>
  /\ box \in [Videos -> Boxes]
  /\ InitProgram

NextAutoplay ==
  \/ \E arg \in Args : ObjectFitVideos(arg)
  \/ \E e \in Videos, d \in VideoDims : DimensionsChange(e, d)
  \/ \E nb \in [Videos -> Boxes] : Resize(nb)
  \/ AnimationFrame
  \/ Timeout

SpecAutoplay == InitAutoplay /\ [][NextAutoplay]_vars

(***************************************************************************)
(* The arguments of objectFitVideos: documents of two videos, each tagged  *)
(* or not, its metadata loaded or not; the page calls objectFitVideos with *)
(* nothing, one element or a collection, and resizes the window.           *)
(***************************************************************************)
ArgFonts == {fArial, fCover, fFill}

ArgDocuments == { <<f, g>> : f \in ArgFonts, g \in ArgFonts }

InitArgs ==
  /\ platform = [fit |-> FALSE, position |-> FALSE]
  /\ fontFamily \in ArgDocuments
  /\ autoplay = NoAutoplay
  /\ media \in [Videos -> {NotReady, Ready(<<4, 3>>)}]
  /\ box = [e \in Videos |-> <<4, 4>>]
  /\ InitProgram

NextArgs ==
  \/ \E arg \in Args : ObjectFitVideos(arg)
  \/ \E e \in Videos : LoadedMetadata(e, <<4, 3>>)
  \/ Resize(box)
  \/ AnimationFrame

SpecArgs == InitArgs /\ [][NextArgs]_vars

(***************************************************************************)
(* The program under the scheduling of the browser: one video that         *)
(* declares a fit, on a platform without support.  A pending timer fires   *)
(* and a requested animation frame runs; the page, the media element and   *)
(* the window are free to do nothing more.                                 *)
(***************************************************************************)
FairDocuments == { <<fCoverRightBottom>> }

\* the intrinsic sizes the platform reports: none yet, or the video's
FairDims == { <<0, 0>>, <<4, 3>> }

InitFair ==
  /\ platform = [fit |-> FALSE, position |-> FALSE]
  /\ fontFamily \in FairDocuments
  /\ autoplay = NoAutoplay
  /\ media = [e \in Videos |-> NotReady]
  /\ box \in [Videos -> Boxes]
  /\ InitProgram

NextFair ==
  \/ \E arg \in Args : ObjectFitVideos(arg)
  \/ \E e \in Videos, d \in FairDims : LoadedMetadata(e, d)
  \/ \E e \in Videos, d \in FairDims : DimensionsChange(e, d)
  \/ \E nb \in [Videos -> Boxes] : Resize(nb)
  \/ AnimationFrame
  \/ Timeout

\* ENABLED <<Timeout>>_vars and ENABLED <<AnimationFrame>>_vars, written out
TimeoutEnabled ==
  /\ timers # <<>>
  /\ WithinBounds(TimeoutResult)
  /\ (TimeoutResult # Cur \/ last # NoLast)

AnimationFrameEnabled ==
  /\ rafQueue # <<>>
  /\ WithinBounds(AnimationFrameResult)

\* the event loop runs a timer that is due and a frame that was requested:
\* WF_vars(Timeout) and WF_vars(AnimationFrame), as the formulas they
\* abbreviate
TimerFairness == []<>(~TimeoutEnabled) \/ []<><<Timeout>>_vars
FrameFairness == []<>(~AnimationFrameEnabled) \/ []<><<AnimationFrame>>_vars

SpecFair ==
  /\ InitFair
  /\ [][NextFair]_vars
  /\ TimerFairness
  /\ FrameFairness

(***************************************************************************)
(* Properties                                                              *)
(***************************************************************************)
ClosuresOf(e) == {b \in 1..Len(binds) : binds[b].el = e}

\* the program has done nothing to video e
Untouched(e) ==
  /\ css[e] = AuthorCss
  /\ dom[e] = 0
  /\ metaL[e] = <<>>
  /\ timeupdateL[e] = <<>>
  /\ endedL[e] = <<>>
  /\ ClosuresOf(e) = {}

ZeroDims(m) == m.videoWidth = 0 \/ m.videoHeight = 0

\* the font-family names neither property
Untagged(ff) == ~Contains(ff, sObjectFit) /\ ~Contains(ff, sObjectPosition)

\* C1: a video whose font-family carries neither an object-fit nor an
\* object-position declaration is never touched: no wrapper, no listener, no
\* closure, no style change, after the call and after every later event.
C1_UntaggedUntouched ==
  \A e \in Videos : Untagged(fontFamily[e]) => Untouched(e)

\* C1 witness: an untagged video, after a call on an unsupported platform,
\* its metadata loaded and an optimizedResize dispatched
C1_Witness ==
  \E e \in Videos :
    /\ Untagged(fontFamily[e])
    /\ calls >= 1
    /\ unsupported(platform)
    /\ media[e].ready
    /\ last.dispatched >= 1

\* C2: on a platform that supports both properties a call does nothing: no
\* video is wrapped or styled, no listener is added, no throttle is started.
C2_NativeNoOp ==
  (platform.fit /\ platform.position) =>
    /\ \A e \in Videos : Untouched(e)
    /\ binds = <<>>
    /\ resizeL = <<>>
    /\ timers = <<>>
    /\ running = <<>>
    /\ rafQueue = <<>>

\* C2 witness: two calls on a supporting platform, on a video that declares a
\* fit, with its metadata loaded
C2_Witness ==
  /\ platform.fit /\ platform.position
  /\ calls >= 2
  /\ fontFamily = <<fCoverRightBottom>>
  /\ media[1].ready

\* closure b has sized its video from a nonzero intrinsic size, in a wrapper
\* of nonzero client size
SizedNonzero(b) ==
  /\ binds[b].observed
  /\ binds[b].videoWidth > 0 /\ binds[b].videoHeight > 0
  /\ box[binds[b].el][1] > 0 /\ box[binds[b].el][2] > 0

\* C3: for fit contain, the width and height written on the video are at most
\* the wrapper's client width and height, with equality on one axis at least.
C3_ContainFits ==
  \A b \in 1..Len(binds) :
    LET e == binds[b].el
    IN  (binds[b].style.fit = sContain /\ SizedNonzero(b)) =>
          /\ css[e].width # Unset /\ css[e].height # Unset
          /\ css[e].width[1] <= box[e][1]
          /\ css[e].height[1] <= box[e][2]
          /\ (css[e].width[1] = box[e][1] \/ css[e].height[1] = box[e][2])

\* C3 witness: a contained video narrower than its wrapper, after a rounding
C3_Witness ==
  \E b \in 1..Len(binds) :
    LET e == binds[b].el
    IN  /\ binds[b].style.fit = sContain /\ SizedNonzero(b)
        /\ css[e].width # Unset
        /\ css[e].width[1] < box[e][1]
        /\ css[e].width[1] * binds[b].videoHeight
             # box[e][2] * binds[b].videoWidth

\* C4: for fit cover, the width and height written on the video are at least
\* the wrapper's client width and height, and at most one of them is greater.
C4_CoverCovers ==
  \A b \in 1..Len(binds) :
    LET e == binds[b].el
    IN  (binds[b].style.fit = sCover /\ SizedNonzero(b)) =>
          /\ css[e].width # Unset /\ css[e].height # Unset
          /\ css[e].width[1] >= box[e][1]
          /\ css[e].height[1] >= box[e][2]
          /\ ~(css[e].width[1] > box[e][1] /\ css[e].height[1] > box[e][2])

\* C4 witness: a covering video taller than its wrapper, after a rounding
C4_Witness ==
  \E b \in 1..Len(binds) :
    LET e == binds[b].el
    IN  /\ binds[b].style.fit = sCover /\ SizedNonzero(b)
        /\ css[e].height # Unset
        /\ css[e].height[1] > box[e][2]
        /\ css[e].height[1] * binds[b].videoWidth
             # box[e][1] * binds[b].videoHeight

\* the video of the end-to-end scenario, sized
Scenario1920(b) ==
  /\ fontFamily[binds[b].el] = Font(sCover, <<>>)
  /\ media[binds[b].el] = Ready(<<1920, 1080>>)
  /\ box[binds[b].el] = <<400, 300>>
  /\ binds[b].observed

\* C5: a 1920 x 1080 video in a 400 x 300 wrapper, fit cover and no position,
\* is sized by the height-constrained branch: height 300px, width 533px,
\* margin-left -67px, margin-top 0.
C5_EndToEnd ==
  \A b \in 1..Len(binds) :
    Scenario1920(b) =>
      /\ HeightConstrained(binds[b].style, Div(1920, 1080), Div(400, 300))
      /\ css[binds[b].el].height = <<300>>
      /\ css[binds[b].el].width = <<533>>
      /\ css[binds[b].el].marginLeft = <<-67>>
      /\ css[binds[b].el].marginTop = <<0>>

\* C5 witness: the scenario's video has been sized
C5_Witness == \E b \in 1..Len(binds) : Scenario1920(b)

\* C6: under an unchanged intrinsic size and wrapper size, a run of the
\* recompute routine (from a frame or a timer) on a video that a run has
\* sized already leaves width, height and margins as they are.
C6_Idempotent ==
  [][ ((AnimationFrame \/ Timeout)
       /\ binds # <<>>
       /\ \A b \in 1..Len(binds) : binds[b].observed)
      => css' = css ]_vars

\* C6 witness: a sized video after a frame has run the recompute routine again
C6_Witness ==
  /\ binds # <<>>
  /\ binds[1].observed
  /\ last.dispatched >= 1
  /\ css[1].width # Unset
  /\ css[1].marginLeft # <<0>>

\* the axes the claim gives for a declared position string
ClaimedX(position) ==
  IF Contains(position, sLeft) THEN "left"
  ELSE IF Contains(position, sRight) THEN "right"
  ELSE "center"

ClaimedY(position) ==
  IF Contains(position, sTop) THEN "top"
  ELSE IF Contains(position, sBottom) THEN "bottom"
  ELSE "center"

\* closure b belongs to a video that declares fit and position
Declares(b, fit, position) ==
  fontFamily[binds[b].el] = Font(fit, position)

\* C7, as claimed: every position string, the absent one too, resolves axis
\* by axis: left, else right, else center; top, else bottom, else center.
C7_AbsentIsCenter ==
  \A b \in 1..Len(binds) :
    \A fit \in FitValues, position \in PositionValues :
      Declares(b, fit, position) =>
        /\ binds[b].style.x = ClaimedX(position)
        /\ binds[b].style.y = ClaimedY(position)

\* C7, amended: a declared position string resolves axis by axis as claimed
\* ('right bottom' to right, bottom; 'top' to center, top); with no declared
\* position both axes stay absent, and the video is sized as it would be
\* for center, center.
C7_PositionResolution ==
  \A b \in 1..Len(binds) :
    \A fit \in FitValues, position \in PositionValues :
      Declares(b, fit, position) =>
        LET c == binds[b]
        IN  /\ c.style.position = position
            /\ position # <<>> =>
                 /\ c.style.x = ClaimedX(position)
                 /\ c.style.y = ClaimedY(position)
            /\ position = sRightBottom =>
                 c.style.x = "right" /\ c.style.y = "bottom"
            /\ position = sTop =>
                 c.style.x = "center" /\ c.style.y = "top"
            /\ position = <<>> =>
                 /\ c.style.x = "absent" /\ c.style.y = "absent"
                 /\ css[c.el] =
                      doWork(css[c.el],
                             [c.style EXCEPT !.x = "center", !.y = "center"],
                             c.videoWidth, c.videoHeight,
                             box[c.el][1], box[c.el][2])

\* C7 witness: a sized video that declares a fit and no position, off center
\* in its wrapper
C7_Witness ==
  \E b \in 1..Len(binds) :
    /\ Declares(b, sCover, <<>>)
    /\ binds[b].observed
    /\ binds[b].style.x = "absent"
    /\ css[binds[b].el].marginLeft # <<0>>

\* C8: after one call on an unsupported platform, the resize events between
\* two animation frames leave exactly one frame callback pending, and the
\* frame that follows dispatches optimizedResize exactly once.
C8_Throttle ==
  Len(running) = 1 =>
    /\ burst >= 1 => Len(rafQueue) = 1
    /\ burst = 0 => rafQueue = <<>>
    /\ last.burst >= 1 => last.dispatched = 1

\* C8 witness: one dispatch in the frame after a burst of two resize events
C8_Witness ==
  /\ Len(running) = 1
  /\ last.burst >= 2
  /\ last.dispatched = 1

\* C9, the invariant: until a closure of the video has read a nonzero
\* intrinsic size, the video has no width and no height, and the margins the
\* wrapping gave it.
C9_NoStyleBeforeDimensions ==
  \A e \in Videos :
    (ClosuresOf(e) # {} /\ \A b \in ClosuresOf(e) : ~binds[b].observed) =>
      /\ css[e].width = Unset
      /\ css[e].height = Unset
      /\ css[e].marginLeft = <<0>>
      /\ css[e].marginTop = <<0>>

\* C9, the step: a run of startWork on a video whose intrinsic width or
\* height is zero (from a timer, a frame or loadedmetadata) changes no style
\* of the video and schedules one timer for every run.
C9_RetryStep ==
  \A e \in Videos :
    ZeroDims(media'[e]) =>
      /\ (Timeout /\ binds[Head(timers)].el = e) =>
           /\ css'[e] = css[e]
           /\ timers' = Append(Tail(timers), Head(timers))
      /\ AnimationFrame =>
           /\ css'[e] = css[e]
           /\ \A b \in ClosuresOf(e) :
                Count(timers', b) = Count(timers, b) + Len(rafQueue)
      /\ (\E d \in VideoDims : LoadedMetadata(e, d)) =>
           /\ css'[e] = css[e]
           /\ \A b \in ClosuresOf(e) :
                Count(timers', b) = Count(timers, b) + Count(metaL[e], b)

\* C9: startWork with a zero intrinsic width or height reschedules itself
\* and writes nothing, and the recompute path writes no width, height or
\* margin before a run has read a nonzero intrinsic size.
C9_Retry == [][C9_RetryStep]_vars /\ []C9_NoStyleBeforeDimensions

\* C9 witness: a retry timer pending for a closure that has never read a
\* nonzero size, on a video whose metadata is loaded
C9_Witness ==
  /\ timers # <<>>
  /\ ~binds[Head(timers)].observed
  /\ media[binds[Head(timers)].el].ready
  /\ css[binds[Head(timers)].el].width = Unset
  /\ last.dispatched >= 1

\* the font-family resolves to fit fill: declared, or defaulted because only
\* a position is declared
FillIntent(ff) ==
  \/ Contains(ff, Decl(sObjectFit, sFill))
  \/ ~Contains(ff, sObjectFit) /\ Contains(ff, sObjectPosition)

\* C10: a video whose fit resolves to fill gets no loadedmetadata,
\* optimizedResize, timeupdate or ended listener and no width, height or
\* margin, whatever events follow.
C10_FillNoAction ==
  \A e \in Videos :
    FillIntent(fontFamily[e]) =>
      /\ metaL[e] = <<>> /\ timeupdateL[e] = <<>> /\ endedL[e] = <<>>
      /\ \A i \in 1..Len(resizeL) : binds[resizeL[i]].el # e
      /\ \A i \in 1..Len(timers) : binds[timers[i]].el # e
      /\ css[e].width = Unset /\ css[e].height = Unset
      /\ css[e].marginLeft = Unset /\ css[e].marginTop = Unset

\* C10 witness: a video that declares only a position, after a call on an
\* unsupported platform, its metadata loaded and an optimizedResize dispatched
C10_Witness ==
  \E e \in Videos :
    /\ fontFamily[e] = fPositionTop
    /\ calls >= 1
    /\ unsupported(platform)
    /\ media[e].ready
    /\ last.dispatched >= 1


\* some closure of video e has applied sizing to it
Sized(e) == \E b \in ClosuresOf(e) : binds[b].observed

\* C11: once sizing has been applied to a video, play() has been called on
\* it if and only if it carries the autoplay attribute, and no play() is
\* called on a video no sizing was applied to.
C11_PlayIffAutoplay ==
  \A e \in Videos :
    /\ Sized(e) => (plays[e] > 0 <=> autoplay[e])
    /\ ~Sized(e) => plays[e] = 0

\* video e is an element of the list l
InList(e, l) == \E i \in DOMAIN l : l[i] = e

\* the font-family declares a fit other than fill
FitIntent(ff) ==
  Contains(ff, Decl(sObjectFit, sContain))
  \/ Contains(ff, Decl(sObjectFit, sCover))

\* nothing of video e changes in the step: wrappers, style, listeners,
\* closures, timers
SameVideo(e) ==
  /\ dom'[e] = dom[e] /\ css'[e] = css[e]
  /\ metaL'[e] = metaL[e]
  /\ timeupdateL'[e] = timeupdateL[e] /\ endedL'[e] = endedL[e]
  /\ {b \in 1..Len(binds') : binds'[b].el = e} = ClosuresOf(e)
  /\ \A b \in ClosuresOf(e) :
       /\ binds'[b] = binds[b]
       /\ Count(resizeL', b) = Count(resizeL, b)
       /\ Count(timers', b) = Count(timers, b)

\* video e gets one more wrapper, the saner styles and one more closure
\* listening to optimizedResize
Processed(e) ==
  /\ dom'[e] = dom[e] + 1
  /\ css'[e].display = "block"
  /\ \E b \in (1..Len(binds')) \ (1..Len(binds)) :
       binds'[b].el = e /\ Count(resizeL', b) = 1

\* C12, the step: a call of objectFitVideos on a platform without support
\* processes the videos of its argument that declare a fit other than fill
\* and leaves every other video of the document as it was; with no argument
\* the list is every video of the document.
C12_CallStep ==
  \A arg \in Args :
    ObjectFitVideos(arg) =>
      /\ arg.kind = "none" => \A e \in Videos : InList(e, arg.list)
      /\ \A e \in Videos :
           IF InList(e, arg.list) /\ FitIntent(fontFamily[e])
             THEN Processed(e)
             ELSE SameVideo(e)

\* C12: exactly the elements of the argument that carry intent are
\* processed by a call, with one element or a collection as the argument,
\* and every video is examined when there is no argument.
C12_ArgumentSubset == [][C12_CallStep]_vars

\* C12 witness: a document of two videos that both declare a fit, after one
\* call that named only the second: the first is as the author left it
C12_Witness ==
  /\ Len(fontFamily) = 2
  /\ FitIntent(fontFamily[1]) /\ FitIntent(fontFamily[2])
  /\ calls = 1
  /\ dom[1] = 0 /\ css[1] = AuthorCss /\ ClosuresOf(1) = {}
  /\ dom[2] = 1
  /\ last.dispatched >= 1

\* the integer nearest to n / d, halves upwards, for d > 0
RoundedQuotient(n, d) == (2 * n + d) \div (2 * d)

\* x >= y for two numbers, false when either is NaN
GreaterEq(x, y) == ~IsNaN(x) /\ ~IsNaN(y) /\ x[1] * y[2] >= y[1] * x[2]

\* the branch as the claim words it
ClaimedHeightConstrained(fit, videoRatio, wrapRatio) ==
  \/ Less(videoRatio, wrapRatio) /\ fit = sContain
  \/ GreaterEq(videoRatio, wrapRatio) /\ fit = sCover

\* C13: a sized video has height = clientHeight and
\* width = round(clientHeight * videoRatio) exactly when videoRatio < wrapRatio
\* with fit contain or videoRatio >= wrapRatio with fit cover, and
\* width = clientWidth and height = round(clientWidth / videoRatio) in every
\* other case.
C13_BranchAndResult ==
  \A b \in 1..Len(binds) :
    LET e  == binds[b].el
        vw == binds[b].videoWidth
        vh == binds[b].videoHeight
        ww == box[e][1]
        wh == box[e][2]
    IN  binds[b].observed =>
          IF ClaimedHeightConstrained(binds[b].style.fit,
                                      Div(vw, vh), Div(ww, wh))
            THEN /\ css[e].height = <<wh>>
                 /\ css[e].width = <<RoundedQuotient(wh * vw, vh)>>
            ELSE /\ css[e].width = <<ww>>
                 /\ css[e].height = <<RoundedQuotient(ww * vh, vw)>>

\* C13 witness: a sized video, in one branch or the other, whose computed
\* side is not the wrapper's and is a quotient that needed rounding
C13_Witness ==
  \E b \in 1..Len(binds) :
    LET e  == binds[b].el
        vw == binds[b].videoWidth
        vh == binds[b].videoHeight
    IN  /\ binds[b].observed
        /\ box[e][1] > 0 /\ box[e][2] > 0
        /\ \/ /\ binds[b].style.fit = sCover
              /\ css[e].height = <<box[e][2]>>
              /\ css[e].width # <<box[e][1]>>
              /\ (box[e][2] * vw) % vh # 0
           \/ /\ binds[b].style.fit = sContain
              /\ css[e].width = <<box[e][1]>>
              /\ css[e].height # <<box[e][2]>>
              /\ (box[e][1] * vh) % vw # 0

\* C14: for a sized video with positionX right in the height-constrained
\* branch, margin-left + width = clientWidth; with positionY bottom in the
\* width-constrained branch, margin-top + height = clientHeight.
C14_FarEdge ==
  \A b \in 1..Len(binds) :
    LET e  == binds[b].el
        st == binds[b].style
        vr == Div(binds[b].videoWidth, binds[b].videoHeight)
        wr == Div(box[e][1], box[e][2])
    IN  (binds[b].observed /\ box[e][1] > 0 /\ box[e][2] > 0) =>
          /\ (HeightConstrained(st, vr, wr) /\ st.x = "right") =>
               /\ css[e].marginLeft # Unset /\ css[e].width # Unset
               /\ css[e].marginLeft[1] + css[e].width[1] = box[e][1]
          /\ (~HeightConstrained(st, vr, wr) /\ st.y = "bottom") =>
               /\ css[e].marginTop # Unset /\ css[e].height # Unset
               /\ css[e].marginTop[1] + css[e].height[1] = box[e][2]

\* video e is wrapped and the platform reports a nonzero intrinsic size
WrappedNonzero(e) ==
  /\ ClosuresOf(e) # {}
  /\ media[e].videoWidth # 0 /\ media[e].videoHeight # 0

\* C15: if a wrapped video's intrinsic size is nonzero from some point on,
\* then sizing is applied to it, with timers firing and frames running but
\* no resize of the window required, whether its metadata was there before
\* the listeners or came after.
C15_NoHang == <>[]WrappedNonzero(1) => <>Sized(1)

\* C15 witness: a closure that missed loadedmetadata (the metadata was there
\* when it subscribed, so it dropped the listener) and has sized its video,
\* with no resize pending or dispatched
C15_Witness ==
  \E b \in ClosuresOf(1) :
    /\ binds[b].observed
    /\ Count(metaL[1], b) = 0
    /\ burst = 0 /\ rafQueue = <<>> /\ last.dispatched = 0

\* the platform reports a nonzero intrinsic size for video e
Nonzero(m) == m.videoWidth # 0 /\ m.videoHeight # 0

\* C16, the step: a run of startWork that reads a nonzero intrinsic width
\* and height schedules no timer: a timer that fires is gone, and a frame or
\* loadedmetadata adds none.
C16_NoFurtherRetry ==
  \A e \in Videos :
    Nonzero(media'[e]) =>
      /\ (Timeout /\ binds[Head(timers)].el = e) => timers' = Tail(timers)
      /\ AnimationFrame => timers' = timers
      /\ (\E d \in VideoDims : LoadedMetadata(e, d)) => timers' = timers

\* a timer is due whose run would take the model beyond MaxMonitors
TimerBeyondBounds == timers # <<>> /\ ~WithinBounds(TimeoutResult)

\* C16: a run of startWork that observes both dimensions nonzero schedules
\* no further retry, and if the intrinsic size stays nonzero (in a behaviour
\* the bounds of the model do not cut) the pending retry timers run out and
\* none is pending from then on.
C16_RetryTerminates ==
  /\ [][C16_NoFurtherRetry]_vars
  /\ (<>[](Nonzero(media[1]) /\ ~TimerBeyondBounds) => <>[](timers = <<>>))

\* C16 witness: a retry is pending for a closure that has only read zero
\* sizes so far, and the platform now reports a nonzero size: the run of
\* this timer is the one that ends the loop
C16_Witness ==
  /\ timers # <<>>
  /\ ~binds[Head(timers)].observed
  /\ Nonzero(media[binds[Head(timers)].el])
  /\ ~TimerBeyondBounds

\* the closures whose videoDimensionsMonitor listens to timeupdate on e
Monitors(e) == {timeupdateL[e][i] : i \in DOMAIN timeupdateL[e]}

\* the cached intrinsic size of closure b is not the one the platform reports
CacheDiffers(b) ==
  \/ binds[b].videoWidth # media[binds[b].el].videoWidth
  \/ binds[b].videoHeight # media[binds[b].el].videoHeight

\* C17, the step: on timeupdate every monitor whose cached size differs
\* from the reported one takes the reported size and sizes the video from
\* it; when no cached size differs, no style and no cache changes.
C17_MonitorStep ==
  \A e \in Videos :
    TimeUpdate(e) =>
      /\ \A b \in Monitors(e) :
           /\ binds'[b].videoWidth = media[e].videoWidth
           /\ binds'[b].videoHeight = media[e].videoHeight
           /\ CacheDiffers(b) =>
                css'[e] = doWork(css[e], binds[b].style,
                                 media[e].videoWidth, media[e].videoHeight,
                                 box[e][1], box[e][2])
      /\ (\A b \in Monitors(e) : ~CacheDiffers(b)) =>
           css' = css /\ binds' = binds

\* C17: the playback monitor updates the cache and re-applies sizing when
\* the reported intrinsic width or height differs from the cached pair, and
\* changes nothing when both are equal.
C17_Monitor == [][C17_MonitorStep]_vars

\* C17 witness: a monitored video whose platform now reports another
\* nonzero size than the one its closure cached and sized from
C17_Witness ==
  \E b \in Monitors(1) :
    /\ binds[b].observed
    /\ CacheDiffers(b)
    /\ binds[b].videoWidth # 0
    /\ Nonzero(media[1])
    /\ css[1].width # Unset

\* video e was sized and has no monitor any more: every sizing run adds a
\* monitor and only the ended listeners remove one, so e has signalled ended
EndedDetached(e) == Sized(e) /\ timeupdateL[e] = <<>>

\* C18: once a sized video has signalled ended and its monitors are
\* detached, no later recompute (from loadedmetadata, optimizedResize or a
\* timer) attaches a timeupdate monitor to it again.
C18_NoReattach ==
  [][ \A e \in Videos :
        (/\ EndedDetached(e)
         /\ \/ AnimationFrame
            \/ Timeout
            \/ \E d \in VideoDims : LoadedMetadata(e, d))
        => timeupdateL'[e] = <<>> ]_vars

\* C19: after any number of calls of objectFitVideos at most one
\* optimizedResize dispatch is pending, and the frame after a burst of
\* resize events dispatches optimizedResize once.
C19_SharedThrottle ==
  /\ Len(rafQueue) <= 1
  /\ last.dispatched <= 1

\* the cached intrinsic size of closure b is nonzero
CacheNonzero(b) == binds[b].videoWidth # 0 /\ binds[b].videoHeight # 0

\* the style of video e is what doWork of closure b yields for the current
\* client size of the wrapper
SizedForBox(e, b) ==
  css[e] = doWork(css[e], binds[b].style,
                  binds[b].videoWidth, binds[b].videoHeight,
                  box[e][1], box[e][2])

\* a frame is requested whose run would take the model beyond MaxMonitors
\* or MaxTimers
FrameBeyondBounds == rafQueue # <<>> /\ ~WithinBounds(AnimationFrameResult)

\* C20, resize: a resize event heard by a throttle leaves a frame pending
C20_ResizeQueuesFrame ==
  ((\E nb \in [Videos -> Boxes] : Resize(nb)) /\ running # <<>>)
    => rafQueue' # <<>>

\* C20, frame: the frame runs the recompute of every closure, which reads
\* the intrinsic size and, if nonzero, sizes for the wrapper's client size
C20_FrameRecomputes ==
  AnimationFrame =>
    \A b \in 1..Len(binds) :
      LET e == binds[b].el
      IN  Nonzero(media[e]) =>
            /\ binds'[b].videoWidth = media[e].videoWidth
            /\ binds'[b].videoHeight = media[e].videoHeight
            /\ css'[e] = doWork(css[e], binds[b].style,
                                media[e].videoWidth, media[e].videoHeight,
                                box[e][1], box[e][2])

\* C20, settled: with no frame pending, a video whose closures all hold a
\* nonzero intrinsic size has the width, height and margins that doWork
\* yields for the current client size of its wrapper
C20_Settled ==
  \A e \in Videos :
    (/\ rafQueue = <<>>
     /\ ClosuresOf(e) # {}
     /\ \A b \in ClosuresOf(e) : CacheNonzero(b))
    => \E b \in ClosuresOf(e) : SizedForBox(e, b)

ClosuresAfter(e) == {b \in 1..Len(binds') : binds'[b].el = e}

\* closure b of video e keeps every subscription it had before the step
KeepsListeners(e, b) ==
  /\ Count(resizeL', b) = Count(resizeL, b)
  /\ Count(metaL'[e], b) = Count(metaL[e], b)
  /\ Count(timeupdateL'[e], b) = Count(timeupdateL[e], b)
  /\ Count(endedL'[e], b) = Count(endedL[e], b)
  /\ Count(timers', b) = Count(timers, b)

\* closure b of video e was created by the step and has its own
\* subscriptions: optimizedResize, and loadedmetadata while the metadata is
\* unknown, else what its first startWork left (a timer or a monitor)
OwnListeners(e, b) ==
  /\ Count(resizeL', b) = 1
  /\ IF ~media[e].ready THEN Count(metaL'[e], b) = 1
      ELSE /\ Count(metaL'[e], b) = 0
           /\ Count(timers', b) + Count(timeupdateL'[e], b) = 1

\* C21, the step: a call of objectFitVideos on a platform without support,
\* for a video that declares contain or cover and already has a wrapper,
\* adds one more wrapper and one more closure with its own listeners, and
\* the closures of the earlier calls keep theirs.
C21_CallStep ==
  \A arg \in Args :
    (ObjectFitVideos(arg) /\ unsupported(platform)) =>
      \A e \in Videos :
        (InList(e, arg.list) /\ FitIntent(fontFamily[e]) /\ dom[e] >= 1) =>
          /\ dom'[e] = dom[e] + 1
          /\ Cardinality(ClosuresAfter(e) \ ClosuresOf(e)) = 1
          /\ \A b \in ClosuresAfter(e) \ ClosuresOf(e) : OwnListeners(e, b)
          /\ \A b \in ClosuresOf(e) :
               binds'[b] = binds[b] /\ KeepsListeners(e, b)

\* the wrappers around a video are as many as the calls that processed it:
\* one closure each, each listening to optimizedResize once
C21_WrapperPerCall ==
  \A e \in Videos :
    /\ dom[e] = Cardinality(ClosuresOf(e))
    /\ dom[e] <= calls
    /\ \A b \in ClosuresOf(e) : Count(resizeL, b) = 1
    /\ (FitIntent(fontFamily[e]) /\ unsupported(platform) /\ calls = 0)
         => dom[e] = 0

\* C21: nothing guards a repeated call: every further call on a wrapped
\* video nests one more wrapper around it and subscribes one more set of
\* listeners, so that k calls leave k wrappers.
C21_RepeatedCallNests == [][C21_CallStep]_vars /\ []C21_WrapperPerCall

\* C21 witness: a video with two wrappers after two calls, its two closures
\* both listening to optimizedResize
C21_Witness ==
  \E e \in Videos :
    /\ calls = 2
    /\ dom[e] = 2
    /\ Cardinality(ClosuresOf(e)) = 2
    /\ Len(resizeL) = 2


\* C22 as claimed, the step: a call of objectFitVideos on a platform
\* without support leaves a video of its list whose fit resolves to fill
\* inside a wrapper.
C22_FillWrappedStep ==
  \A arg \in Args :
    (ObjectFitVideos(arg) /\ unsupported(platform)) =>
      \A e \in Videos :
        (InList(e, arg.list) /\ FillIntent(fontFamily[e])) => dom'[e] >= 1

C22_FillWrapped == [][C22_FillWrappedStep]_vars

\* C22 as the code has it, the step: the call returns with such a video
\* where it was, with no wrapper, no closure and the author's style.
C22_FillStep ==
  \A arg \in Args :
    (ObjectFitVideos(arg) /\ unsupported(platform)) =>
      \A e \in Videos :
        (InList(e, arg.list) /\ FillIntent(fontFamily[e])) =>
          /\ dom'[e] = 0
          /\ css'[e] = AuthorCss
          /\ ClosuresAfter(e) = {}
          /\ Len(resizeL') = Len(resizeL)

\* C22, amended: a video that carries intent but whose fit resolves to fill
\* is not wrapped: the call leaves the document as it was, and no later
\* event inserts a wrapper.
C22_FillNotWrapped ==
  /\ [][C22_FillStep]_vars
  /\ [](\A e \in Videos : FillIntent(fontFamily[e]) => dom[e] = 0)

\* C22 witness: a video that declares object-fit: fill, named twice to
\* objectFitVideos on a platform without support, its metadata loaded
C22_Witness ==
  \E e \in Videos :
    /\ fontFamily[e] = fFill
    /\ unsupported(platform)
    /\ calls = 2
    /\ Len(running) = 2
    /\ media[e].ready
    /\ dom[e] = 0


\* the pending retry timers of the closures of video e
TimersOf(e) == {i \in 1..Len(timers) : binds[timers[i]].el = e}

\* C23: after one call of objectFitVideos, a video whose intrinsic size is
\* still zero has at most one setTimeout(startWork, 50) pending, whatever
\* loadedmetadata events, optimizedResize dispatches and timer firings came
\* before.
C23_OneRetryTimer ==
  \A e \in Videos :
    (calls = 1 /\ ZeroDims(media[e])) => Cardinality(TimersOf(e)) <= 1


\* C24: after one call of objectFitVideos, a video has at most one
\* timeupdate monitor and at most one ended handler attached, whatever
\* loadedmetadata events, optimizedResize dispatches and timer firings
\* reached the sizing step.
C24_OneMonitor ==
  \A e \in Videos :
    calls = 1 => (Len(timeupdateL[e]) <= 1 /\ Len(endedL[e]) <= 1)


\* the intrinsic size closure b holds after the step is nonzero
CachedNonzeroAfter(b) ==
  binds'[b].videoWidth # 0 /\ binds'[b].videoHeight # 0

\* the step ran the sizing step of startWork for closure b of video e: the
\* closure attached one more monitor (initial run, loadedmetadata,
\* optimizedResize or retry timer)
SizedByStartWork(e, b) ==
  Count(timeupdateL'[e], b) >
    (IF b \in ClosuresOf(e) THEN Count(timeupdateL[e], b) ELSE 0)

\* the step is a timeupdate in which the monitor of closure b took a new
\* intrinsic size, and so ran doWork
SizedByMonitor(e, b) ==
  /\ TimeUpdate(e)
  /\ b \in ClosuresOf(e)
  /\ <<binds'[b].videoWidth, binds'[b].videoHeight>>
       # <<binds[b].videoWidth, binds[b].videoHeight>>

\* C25, the step: whenever a step runs doWork for a closure, from startWork
\* or from the timeupdate monitor, the intrinsic size the closure holds is
\* nonzero in both dimensions.
C25_Step ==
  \A e \in Videos :
    \A b \in ClosuresAfter(e) :
      (SizedByStartWork(e, b) \/ SizedByMonitor(e, b))
        => CachedNonzeroAfter(b)

\* C25: doWork never runs on a zero cached width or height, so that it
\* never computes a non-finite width, height or margin.
C25_NoZeroSizing == [][C25_Step]_vars

=============================================================================
